---- MODULE Spec2Model ----
(***************************************************************************)
(* A model of wordler_bot: StatsManager (stats.py), the score handling of  *)
(* the parser (parser.py) and the callers of record_result (bot.py).       *)
(*                                                                         *)
(* Concurrency: asyncio tasks on one event loop.  A task runs until it     *)
(* awaits something that is not ready.  The body of record_result holds no *)
(* await, and `async with self._lock` does not suspend when the lock is    *)
(* free, so a task that is scheduled runs the whole body; `running` is the *)
(* task the event loop is executing.  The body is still modelled in steps, *)
(* because the process can die between any two of them, and because a      *)
(* step of _persist_locked can raise OSError.                              *)
(*                                                                         *)
(* Wall-clock values (recorded_at, updated_at) are left out of the state.  *)
(***************************************************************************)
EXTENDS Integers, Sequences, FiniteSets, TLC

VARIABLES
    stats,        \* StatsManager._stats: the dict, as its items in insertion order
    processed,    \* StatsManager._processed_messages
    lock,         \* StatsManager._lock: the task holding it, or NoTask
    running,      \* the task the event loop is executing, or NoTask
    phase,        \* "constructed" after __init__, "ready" after load()
    disk,         \* the file at data_path
    tmp,          \* the file at data_path.with_suffix(".tmp")
    pc,           \* each task's position in record_result
    arg,          \* each task's arguments
    ret,          \* each task's return value (meaningful at pc = "done")
    board,        \* the list the last leaderboard() call returned
    entry,        \* history: <<_stats, _processed_messages>> when the running call began
    returnedTrue, \* history: the dedupe keys of the calls that returned True
    faults,       \* number of write errors and process deaths so far
    leaderboard_snapshot, \* StatsManager: the rank order published last
    gotSnapshot,  \* the list the last get_leaderboard_snapshot() call returned
    userSummary,  \* what the last get_user_summary() call returned
    content,      \* the message text handed to the parser
    parsed,       \* what the last parse_wordle_message(content) call returned
    daily,        \* what the last parse_daily_summary(content) call returned
    todo          \* each process_daily_summary run's entries still to handle

(* what the queries and the parser read and return; record_result, load and
   leaderboard leave it alone *)
queryVars == <<leaderboard_snapshot, gotSnapshot, userSummary, content, parsed, daily,
               todo>>

vars == <<stats, processed, lock, running, phase, disk, tmp, pc, arg, ret,
          board, entry, returnedTrue, faults, queryVars>>

----------------------------------------------------------------------------
(* Bounds of the model *)

(* the games the store may hold: record_result is called while fewer are held *)
MaxGames == 2

(* the write errors and process deaths of one run *)
MaxFaults == 1

(* the games of one player in the stores the leaderboard is applied to *)
MaxPlayed == 2

Tasks == {"t1", "t2"}
NoTask == "none"

(* Optional[T]: None is the empty set, a present value x is {x}. *)
None == {}
Some(x) == {x}
Val(o) == CHOOSE x \in o : TRUE

(* The `user` objects passed to record_result: id is str(user.id), display_name is a
   sequence of code points ("al", "Bo"). *)
Members == {[id |-> "1", display_name |-> <<97, 108>>],
            [id |-> "2", display_name |-> <<66, 111>>]}

(* The strings that can be in _processed_messages, in the order sorted() gives them:
   str(message.id) and f"{message.id}:{member.id}". *)
KeyOrder == <<"101", "101:1", "101:2">>

(* str(message_id) *)
MessageIds == {101}
StrId(m) == IF m = 101 THEN "101" ELSE "?"

PuzzleNumbers == {7}

----------------------------------------------------------------------------
(* parser.py: the score token *)

(* The class [0-6Xx] of WORDLE_REGEX and SUMMARY_LINE_REGEX. *)
ScoreTokens == {"0", "1", "2", "3", "4", "5", "6", "X", "x"}

Digits == <<"0", "1", "2", "3", "4", "5", "6">>

(* str(i) for i in 0..6 *)
Str(i) == Digits[i + 1]

(* int(s) for a digit token *)
ToInt(s) == (CHOOSE i \in DOMAIN Digits : Digits[i] = s) - 1

(* str.upper() on a score token *)
Upper(s) == IF s = "x" THEN "X" ELSE s

(* score_raw != "X" *)
ScoreSuccess(score) == Upper(score) # "X"

ScoreAttemptsNever(score) == None

(* int(score_raw) if success else None *)
ScoreAttempts(score) == IF ScoreSuccess(score) THEN Some(ToInt(Upper(score))) ELSE None

(* parse_wordle_message: the WordleResult built from a matched share line
   (the board is not read by StatsManager). *)
WordleResult(puzzle, score, hard) ==
    [puzzle_number |-> Some(puzzle),
     success       |-> ScoreSuccess(score),
     attempts      |-> ScoreAttempts(score),
     hard_mode     |-> hard]

(* process_daily_summary: the WordleResult built from a DailySummaryEntry. *)
SummaryResult(score) ==
    [puzzle_number |-> None,
     success       |-> ScoreSuccess(score),
     attempts      |-> ScoreAttempts(score),
     hard_mode     |-> FALSE]

(* The calls of record_result the model makes, as <<result, message_id, message_key>>:
   on_message and wordle_backfill pass a parsed share message and message_id;
   process_daily_summary passes a summary entry and message_key = "<message>:<member>";
   the signature also allows an empty message_key and no key at all. *)
CallInputs(user_id) ==
    {<<WordleResult(p, "3", TRUE), Some(m), None>> : p \in PuzzleNumbers, m \in MessageIds}
    \cup {<<WordleResult(p, "x", FALSE), None, None>> : p \in PuzzleNumbers}
    \cup {<<SummaryResult("X"), None, Some("101:" \o user_id)>>,
          <<SummaryResult("0"), None, Some("")>>}

----------------------------------------------------------------------------
(* stats.py: the store *)

BucketRange == {Str(i) : i \in 1..6}

(* _blank_stats, as the item (str(user.id), stats) of _stats *)
_blank_stats(user_id, display_name) ==
    [user_id            |-> user_id,
     display_name       |-> display_name,
     games_played       |-> 0,
     wins               |-> 0,
     losses             |-> 0,
     total_attempts     |-> 0,
     guess_distribution |-> [b \in BucketRange |-> 0],
     last_puzzle        |-> None,
     last_result        |-> None]

UserIdsOf(s) == {s[i].user_id : i \in DOMAIN s}

IndexOf(s, user_id) == CHOOSE i \in DOMAIN s : s[i].user_id = user_id

(* dict.setdefault: a new key goes to the end of the dict *)
SetDefault(s, user_id, blank) ==
    IF user_id \in UserIdsOf(s) THEN s ELSE Append(s, blank)

(* key = message_key; if key is None and message_id is not None: key = str(message_id) *)
DedupKey(message_id, message_key) ==
    IF message_key = None /\ message_id # None THEN Some(StrId(Val(message_id)))
    ELSE message_key

TruthyNotNone(key) == key # None

(* truthiness of an Optional[str] *)
Truthy(key) == key # None /\ Val(key) # ""

IsDuplicateNever(key, seen) == FALSE

(* if key and key in self._processed_messages *)
IsDuplicate(key, seen) == Truthy(key) /\ Val(key) \in seen

(* result.attempts or 0 *)
AttemptsOrZero(result) == IF result.attempts = None THEN 0 ELSE Val(result.attempts)

CountAsLoss(st, result) == [st EXCEPT !.losses = @ + 1]

(* lines 90-98: the counters of one stats dict *)
Count(st, result) ==
    IF result.success
    THEN LET bucket == Str(AttemptsOrZero(result))
             dist   == IF bucket \in DOMAIN st.guess_distribution
                       THEN st.guess_distribution
                       ELSE (bucket :> 0) @@ st.guess_distribution
         IN  [st EXCEPT !.wins = @ + 1,
                        !.total_attempts = @ + AttemptsOrZero(result),
                        !.guess_distribution = [dist EXCEPT ![bucket] = @ + 1]]
    ELSE [st EXCEPT !.losses = @ + 1]

FinishWinsOnly(st, result) ==
    [st EXCEPT !.games_played = st.wins,
               !.last_puzzle  = result.puzzle_number,
               !.last_result  = Some([puzzle_number |-> result.puzzle_number,
                                      success       |-> result.success,
                                      attempts      |-> result.attempts,
                                      hard_mode     |-> result.hard_mode])]

(* lines 100-108 *)
Finish(st, result) ==
    [st EXCEPT !.games_played = st.wins + st.losses,
               !.last_puzzle  = result.puzzle_number,
               !.last_result  = Some([puzzle_number |-> result.puzzle_number,
                                      success       |-> result.success,
                                      attempts      |-> result.attempts,
                                      hard_mode     |-> result.hard_mode])]

----------------------------------------------------------------------------
(* stats.py: summaries and the leaderboard *)

RECURSIVE GCD(_, _)
GCD(a, b) == IF b = 0 THEN a ELSE GCD(b, a % b)

(* The float n / d for integers n >= 0, d > 0, as the fraction in lowest terms: two
   such quotients are the same float exactly when they are the same fraction, for
   counts far below 2^53. *)
Quotient(n, d) == <<n \div GCD(n, d), d \div GCD(n, d)>>

QLess(x, y) == x[1] * y[2] < y[1] * x[2]

MakeSummaryPerGame(user_id, st) ==
    [user_id            |-> user_id,
     display_name       |-> st.display_name,
     games_played       |-> st.games_played,
     wins               |-> st.wins,
     losses             |-> st.losses,
     win_rate           |-> IF st.games_played # 0
                            THEN Quotient(st.wins, st.games_played)
                            ELSE <<0, 1>>,
     average_attempts   |-> IF st.wins # 0
                            THEN Some(Quotient(st.total_attempts, st.games_played))
                            ELSE None,
     guess_distribution |-> [b \in BucketRange |->
                               IF b \in DOMAIN st.guess_distribution
                               THEN st.guess_distribution[b]
                               ELSE 0],
     total_attempts     |-> st.total_attempts,
     last_puzzle        |-> st.last_puzzle]

(* _make_summary *)
_make_summary(user_id, st) ==
    [user_id            |-> user_id,
     display_name       |-> st.display_name,
     games_played       |-> st.games_played,
     wins               |-> st.wins,
     losses             |-> st.losses,
     win_rate           |-> IF st.games_played # 0
                            THEN Quotient(st.wins, st.games_played)
                            ELSE <<0, 1>>,
     average_attempts   |-> IF st.wins # 0
                            THEN Some(Quotient(st.total_attempts, st.wins))
                            ELSE None,
     guess_distribution |-> [b \in BucketRange |->
                               IF b \in DOMAIN st.guess_distribution
                               THEN st.guess_distribution[b]
                               ELSE 0],
     total_attempts     |-> st.total_attempts,
     last_puzzle        |-> st.last_puzzle]

(* get_user_summary; a stats dict is never empty, so `not stats` is `stats is None` *)
get_user_summary(s, user_id) ==
    IF user_id \in UserIdsOf(s)
    THEN Some(_make_summary(user_id, s[IndexOf(s, user_id)]))
    ELSE None

(* str.lower() on ASCII code points *)
Lower(name) == [i \in DOMAIN name |-> IF name[i] \in 65..90 THEN name[i] + 32 ELSE name[i]]

(* the < of str *)
RECURSIVE StrLess(_, _)
StrLess(a, b) ==
    IF b = <<>> THEN FALSE
    ELSE IF a = <<>> THEN TRUE
    ELSE IF Head(a) # Head(b) THEN Head(a) < Head(b)
    ELSE StrLess(Tail(a), Tail(b))

(* item.average_attempts if item.average_attempts is not None else 99 *)
AverageOr99(item) ==
    IF item.average_attempts # None THEN Val(item.average_attempts) ELSE <<99, 1>>

KeyLessAverageFirst(a, b) ==
    \/ QLess(AverageOr99(a), AverageOr99(b))
    \/ /\ AverageOr99(a) = AverageOr99(b)
       /\ \/ QLess(b.win_rate, a.win_rate)
          \/ /\ a.win_rate = b.win_rate
             /\ \/ b.wins < a.wins
                \/ /\ a.wins = b.wins
                   /\ StrLess(Lower(a.display_name), Lower(b.display_name))

(* the < of the sort keys (-win_rate, average or 99, -wins, display_name.lower()) *)
KeyLess(a, b) ==
    \/ QLess(b.win_rate, a.win_rate)
    \/ /\ a.win_rate = b.win_rate
       /\ \/ QLess(AverageOr99(a), AverageOr99(b))
          \/ /\ AverageOr99(a) = AverageOr99(b)
             /\ \/ b.wins < a.wins
                \/ /\ a.wins = b.wins
                   /\ StrLess(Lower(a.display_name), Lower(b.display_name))

(* list.sort is stable: an item goes after the items that are not greater *)
RECURSIVE Insert(_, _)
Insert(item, sorted) ==
    IF sorted = <<>> THEN <<item>>
    ELSE IF KeyLess(item, Head(sorted)) THEN <<item>> \o sorted
    ELSE <<Head(sorted)>> \o Insert(item, Tail(sorted))

RECURSIVE SortEntries(_)
SortEntries(entries) ==
    IF entries = <<>> THEN <<>>
    ELSE Insert(entries[Len(entries)], SortEntries(SubSeq(entries, 1, Len(entries) - 1)))

(* entries[:limit] *)
Slice(entries, limit) ==
    LET n    == Len(entries)
        stop == IF limit >= 0 THEN (IF limit < n THEN limit ELSE n)
                ELSE (IF n + limit > 0 THEN n + limit ELSE 0)
    IN  SubSeq(entries, 1, stop)

EntriesOfEveryone(s) == [i \in DOMAIN s |-> _make_summary(s[i].user_id, s[i])]

(* lines 131-136: the summaries of the players with games_played != 0, in dict order *)
Entries(s) ==
    LET all == [i \in DOMAIN s |-> _make_summary(s[i].user_id, s[i])]
    IN  SelectSeq(all, LAMBDA e : e.games_played # 0)

(* leaderboard(limit) *)
leaderboard(s, limit) == Slice(SortEntries(Entries(s)), limit)

----------------------------------------------------------------------------
(* stats.py: the snapshot file *)

(* A file: absent, text that is no JSON document (a truncated document among them),
   a JSON document that is no object, or a JSON object with its "users" and
   "processed_messages" members. *)
File(kind, usersIsDict, users, processedIsList, processed_messages) ==
    [kind               |-> kind,
     usersIsDict        |-> usersIsDict,
     users              |-> users,
     processedIsList    |-> processedIsList,
     processed_messages |-> processed_messages]

Missing   == File("missing", FALSE, <<>>, FALSE, <<>>)
Malformed == File("malformed", FALSE, <<>>, FALSE, <<>>)
NotDict   == File("notdict", FALSE, <<>>, FALSE, <<>>)

(* sorted(self._processed_messages) *)
Sorted(keys) == SelectSeq(KeyOrder, LAMBDA k : k \in keys)

PayloadWithoutKeys(s, keys) == File("dict", TRUE, s, TRUE, <<>>)

(* the payload of _persist_locked, as json.dump writes it in full *)
Payload(s, keys) == File("dict", TRUE, s, TRUE, Sorted(keys))

(* open(tmp, "w") truncates; a json.dump that has not finished leaves a prefix of the
   document, which is no JSON document *)
Truncated == Malformed

Range(seq) == {seq[i] : i \in DOMAIN seq}

(* load(): the _stats it leaves *)
LoadedStats(file) ==
    IF file.kind = "dict" /\ file.usersIsDict THEN file.users ELSE <<>>

LoadedProcessedForgotten(file) == {}

(* load(): the _processed_messages it leaves *)
LoadedProcessed(file) ==
    IF file.kind = "dict" /\ file.processedIsList
    THEN Range(file.processed_messages)
    ELSE {}

(* The files load() can find at start: none, a corrupt one, or a JSON object with
   a wrong member. *)
InitialFiles ==
    {Missing, Malformed, NotDict,
     File("dict", FALSE, <<>>, TRUE, <<"101">>),
     File("dict", TRUE, <<>>, FALSE, <<>>)}

----------------------------------------------------------------------------
(* The state machine *)

NoResult == [puzzle_number |-> None, success |-> FALSE, attempts |-> None,
             hard_mode |-> FALSE]

NoArg == [user_id |-> "", display_name |-> <<>>, result |-> NoResult,
          message_id |-> None, message_key |-> None, fresh |-> FALSE, played |-> 0]

KeyOf(t) == DedupKey(arg[t].message_id, arg[t].message_key)

GamesPlayedOf(s, user_id) ==
    IF user_id \in UserIdsOf(s) THEN s[IndexOf(s, user_id)].games_played ELSE 0

RECURSIVE Games(_)
Games(s) == IF s = <<>> THEN 0 ELSE Head(s).games_played + Games(Tail(s))

(* the calls made whose outcome the caller has not taken yet *)
InFlight == {t \in Tasks : pc[t] # "idle"}

(* nothing has been published, asked or parsed *)
NoQueries ==
    /\ leaderboard_snapshot = <<>>
    /\ gotSnapshot = <<>>
    /\ userSummary = None
    /\ content = <<>>
    /\ parsed = None
    /\ daily = <<>>
    /\ todo = [t \in Tasks |-> <<>>]

(* StatsManager.__init__ *)
Init ==
    /\ stats = <<>>
    /\ processed = {}
    /\ lock = NoTask
    /\ running = NoTask
    /\ phase = "constructed"
    /\ disk \in InitialFiles
    /\ tmp = Missing
    /\ pc = [t \in Tasks |-> "idle"]
    /\ arg = [t \in Tasks |-> NoArg]
    /\ ret = [t \in Tasks |-> FALSE]
    /\ board = <<>>
    /\ entry = <<stats, processed>>
    /\ returnedTrue = {}
    /\ faults = 0
    /\ NoQueries

(* main(): stats_manager.load() *)
Load ==
    /\ phase = "constructed"
    /\ phase' = "ready"
    /\ stats' = LoadedStats(disk)
    /\ processed' = LoadedProcessed(disk)
    /\ entry' = <<stats', processed'>>
    /\ UNCHANGED queryVars
    /\ UNCHANGED <<lock, running, disk, tmp, pc, arg, ret, board, returnedTrue, faults>>

(* A caller (on_message, wordle_backfill, process_daily_summary) creates the coroutine
   record_result(user, result, message_id=, message_key=); it has not run yet. *)
Call(t) ==
    /\ phase = "ready"
    /\ running = NoTask
    /\ pc[t] = "idle"
    /\ Games(stats) + Cardinality(InFlight) < MaxGames
    /\ \E user \in Members :
         \E in \in CallInputs(user.id) :
           arg' = [arg EXCEPT ![t] =
                     [user_id |-> user.id, display_name |-> user.display_name,
                      result |-> in[1], message_id |-> in[2], message_key |-> in[3],
                      fresh  |-> ~IsDuplicate(DedupKey(in[2], in[3]), processed),
                      played |-> GamesPlayedOf(stats, user.id)]]
    /\ pc' = [pc EXCEPT ![t] = "start"]
    /\ UNCHANGED queryVars
    /\ UNCHANGED <<stats, processed, lock, running, phase, disk, tmp, ret, board,
                   entry, returnedTrue, faults>>

(* async with self._lock: the event loop runs the task; the lock is free *)
Acquire(t) ==
    /\ pc[t] = "start"
    /\ running = NoTask
    /\ lock = NoTask
    /\ lock' = t
    /\ running' = t
    /\ entry' = <<stats, processed>>
    /\ pc' = [pc EXCEPT ![t] = "locked"]
    /\ UNCHANGED queryVars
    /\ UNCHANGED <<stats, processed, phase, disk, tmp, arg, ret, board, returnedTrue, faults>>

(* leaving the async with block, by return or by an exception *)
Release(t, at, value) ==
    /\ lock' = NoTask
    /\ running' = NoTask
    /\ pc' = [pc EXCEPT ![t] = at]
    /\ ret' = [ret EXCEPT ![t] = value]
    /\ entry' = <<stats, processed>>

(* lines 84-86: return False *)
Duplicate(t) ==
    /\ pc[t] = "locked"
    /\ IsDuplicate(KeyOf(t), processed)
    /\ Release(t, "done", FALSE)
    /\ UNCHANGED queryVars
    /\ UNCHANGED <<stats, processed, phase, disk, tmp, arg, board, returnedTrue, faults>>

MutateThenYield(t) ==
    /\ pc[t] = "locked"
    /\ ~IsDuplicate(KeyOf(t), processed)
    /\ LET a  == arg[t]
           s1 == SetDefault(stats, a.user_id, _blank_stats(a.user_id, a.display_name))
           i  == IndexOf(s1, a.user_id)
           st == [s1[i] EXCEPT !.display_name = a.display_name]
       IN  stats' = [s1 EXCEPT ![i] = Count(st, a.result)]
    /\ pc' = [pc EXCEPT ![t] = "counted"]
    /\ running' = NoTask
    /\ UNCHANGED queryVars
    /\ UNCHANGED <<processed, lock, phase, disk, tmp, arg, ret, board, entry,
                   returnedTrue, faults>>

(* lines 87-98: setdefault, display_name, the counters *)
Mutate(t) ==
    /\ pc[t] = "locked"
    /\ ~IsDuplicate(KeyOf(t), processed)
    /\ LET a  == arg[t]
           s1 == SetDefault(stats, a.user_id, _blank_stats(a.user_id, a.display_name))
           i  == IndexOf(s1, a.user_id)
           st == [s1[i] EXCEPT !.display_name = a.display_name]
       IN  stats' = [s1 EXCEPT ![i] = Count(st, a.result)]
    /\ pc' = [pc EXCEPT ![t] = "counted"]
    /\ UNCHANGED queryVars
    /\ UNCHANGED <<processed, lock, running, phase, disk, tmp, arg, ret, board, entry,
                   returnedTrue, faults>>

AddKeySkipped(key, seen) == seen

(* if key: self._processed_messages.add(key) *)
AddKey(key, seen) == IF Truthy(key) THEN seen \cup {Val(key)} ELSE seen

(* lines 100-119: games_played, last_puzzle, last_result, the dedupe key *)
Complete(t) ==
    /\ pc[t] = "counted"
    /\ LET i == IndexOf(stats, arg[t].user_id)
       IN  stats' = [stats EXCEPT ![i] = Finish(stats[i], arg[t].result)]
    /\ processed' = AddKey(KeyOf(t), processed)
    /\ pc' = [pc EXCEPT ![t] = "persist"]
    /\ UNCHANGED queryVars
    /\ UNCHANGED <<lock, running, phase, disk, tmp, arg, ret, board, entry,
                   returnedTrue, faults>>

PersistOpenInPlace(t) ==
    /\ pc[t] = "persist"
    /\ disk' = Truncated
    /\ pc' = [pc EXCEPT ![t] = "opened"]
    /\ UNCHANGED queryVars
    /\ UNCHANGED <<stats, processed, lock, running, phase, tmp, arg, ret, board,
                   entry, returnedTrue, faults>>

(* _persist_locked: tmp_path.open("w") *)
PersistOpen(t) ==
    /\ pc[t] = "persist"
    /\ tmp' = Truncated
    /\ pc' = [pc EXCEPT ![t] = "opened"]
    /\ UNCHANGED queryVars
    /\ UNCHANGED <<stats, processed, lock, running, phase, disk, arg, ret, board,
                   entry, returnedTrue, faults>>

(* _persist_locked: json.dump(payload, handle) and the close of the file *)
PersistWrite(t) ==
    /\ pc[t] = "opened"
    /\ tmp' = Payload(stats, processed)
    /\ pc' = [pc EXCEPT ![t] = "written"]
    /\ UNCHANGED queryVars
    /\ UNCHANGED <<stats, processed, lock, running, phase, disk, arg, ret, board,
                   entry, returnedTrue, faults>>

(* tmp_path.replace(self.data_path): what <<tmp_path, data_path>> hold afterwards *)
Replace(source, target) == <<Missing, source>>

(* _persist_locked: the rename *)
PersistRename(t) ==
    /\ pc[t] = "written"
    /\ tmp' = Replace(tmp, disk)[1]
    /\ disk' = Replace(tmp, disk)[2]
    /\ pc' = [pc EXCEPT ![t] = "renamed"]
    /\ UNCHANGED queryVars
    /\ UNCHANGED <<stats, processed, lock, running, phase, arg, ret, board, entry,
                   returnedTrue, faults>>

PersistFailsSwallowed(t) ==
    /\ pc[t] \in {"persist", "opened", "written"}
    /\ faults < MaxFaults
    /\ faults' = faults + 1
    /\ pc' = [pc EXCEPT ![t] = "renamed"]
    /\ UNCHANGED queryVars
    /\ UNCHANGED <<stats, processed, lock, running, phase, disk, tmp, arg, ret, board,
                   entry, returnedTrue>>

(* OSError from open, write or replace: it leaves _persist_locked and record_result;
   the async with block releases the lock *)
PersistFails(t) ==
    /\ pc[t] \in {"persist", "opened", "written"}
    /\ Release(t, "raised", FALSE)
    /\ faults < MaxFaults
    /\ faults' = faults + 1
    /\ UNCHANGED queryVars
    /\ UNCHANGED <<stats, processed, phase, disk, tmp, arg, board, returnedTrue>>

(* line 122: return True *)
ReturnTrue(t) ==
    /\ pc[t] = "renamed"
    /\ Release(t, "done", TRUE)
    /\ returnedTrue' = returnedTrue \cup KeyOf(t)
    /\ UNCHANGED queryVars
    /\ UNCHANGED <<stats, processed, phase, disk, tmp, arg, board, faults>>

(* the caller takes the outcome of the call *)
Collect(t) ==
    /\ running = NoTask
    /\ pc[t] \in {"done", "raised"}
    /\ pc' = [pc EXCEPT ![t] = "idle"]
    /\ arg' = [arg EXCEPT ![t] = NoArg]
    /\ ret' = [ret EXCEPT ![t] = FALSE]
    /\ UNCHANGED queryVars
    /\ UNCHANGED <<stats, processed, lock, running, phase, disk, tmp, board, entry,
                   returnedTrue, faults>>

(* The process dies and is started again: a fresh StatsManager on the same path.
   The files stay as they are. *)
Crash ==
    /\ phase = "ready"
    /\ stats' = <<>>
    /\ processed' = {}
    /\ lock' = NoTask
    /\ running' = NoTask
    /\ phase' = "constructed"
    /\ pc' = [t \in Tasks |-> "idle"]
    /\ arg' = [t \in Tasks |-> NoArg]
    /\ ret' = [t \in Tasks |-> FALSE]
    /\ entry' = <<stats', processed'>>
    /\ faults < MaxFaults
    /\ faults' = faults + 1
    /\ UNCHANGED queryVars
    /\ UNCHANGED <<disk, tmp, board, returnedTrue>>

Next ==
    \/ Load
    \/ Crash
    \/ \E t \in Tasks :
         \/ Call(t)
         \/ Acquire(t)
         \/ Duplicate(t)
         \/ Mutate(t)
         \/ Complete(t)
         \/ PersistOpen(t)
         \/ PersistWrite(t)
         \/ PersistRename(t)
         \/ PersistFails(t)
         \/ ReturnTrue(t)
         \/ Collect(t)

Spec == Init /\ [][Next]_vars

----------------------------------------------------------------------------
(* The leaderboard applied to stores set up directly, as the tests of
   test_stats_manager.py do with make_player. *)

(* the limits passed: settings.leaderboard_size is any integer *)
Limits == {-1, 0, 1, 2, 10}

(* make_player, for counts a sequence of recorded games can give: losses make up the
   games, each win took 0 to 6 attempts *)
make_player(user_id, display_name, games, wins, total_attempts) ==
    [_blank_stats(user_id, display_name) EXCEPT
       !.games_played = games, !.wins = wins, !.losses = games - wins,
       !.total_attempts = total_attempts]

Players(user_id) ==
    {make_player(user_id, m.display_name, g, w, a) :
       m \in Members, g \in 0..MaxPlayed, w \in 0..MaxPlayed, a \in 0..(6 * MaxPlayed)}

Stores ==
    {<<>>}
    \cup {<<p>> : p \in {x \in Players("1") : x.wins <= x.games_played
                                              /\ x.total_attempts <= 6 * x.wins}}
    \cup {<<p, q>> : p \in {x \in Players("1") : x.wins <= x.games_played
                                                 /\ x.total_attempts <= 6 * x.wins},
                     q \in {x \in Players("2") : x.wins <= x.games_played
                                                 /\ x.total_attempts <= 6 * x.wins}}
    \cup {<<q, p>> : p \in {x \in Players("1") : x.wins <= x.games_played
                                                 /\ x.total_attempts <= 6 * x.wins},
                     q \in {x \in Players("2") : x.wins <= x.games_played
                                                 /\ x.total_attempts <= 6 * x.wins}}

InitBoard ==
    /\ stats \in Stores
    /\ processed = {}
    /\ lock = NoTask
    /\ running = NoTask
    /\ phase = "ready"
    /\ disk = Missing
    /\ tmp = Missing
    /\ pc = [t \in Tasks |-> "idle"]
    /\ arg = [t \in Tasks |-> NoArg]
    /\ ret = [t \in Tasks |-> FALSE]
    /\ board = <<>>
    /\ entry = <<stats, processed>>
    /\ returnedTrue = {}
    /\ faults = 0
    /\ NoQueries

(* send_leaderboard_embed: stats_manager.leaderboard(limit=settings.leaderboard_size) *)
Leaderboard(limit) ==
    /\ phase = "ready"
    /\ running = NoTask
    /\ board' = leaderboard(stats, limit)
    /\ UNCHANGED queryVars
    /\ UNCHANGED <<stats, processed, lock, running, phase, disk, tmp, pc, arg, ret,
                   entry, returnedTrue, faults>>

NextBoard == \E limit \in Limits : Leaderboard(limit)

SpecBoard == InitBoard /\ [][NextBoard]_vars

----------------------------------------------------------------------------
(* get_user_summary applied to the stores set up directly *)

(* the ids asked for: the players of the stores and one nobody has *)
AskedIds == {"1", "2", "3"}

(* summary = stats_manager.get_user_summary(user_id) *)
GetUserSummary(user_id) ==
    /\ phase = "ready"
    /\ running = NoTask
    /\ userSummary' = get_user_summary(stats, user_id)
    /\ UNCHANGED <<stats, processed, lock, running, phase, disk, tmp, pc, arg, ret,
                   board, entry, returnedTrue, faults>>
    /\ UNCHANGED <<leaderboard_snapshot, gotSnapshot, content, parsed, daily, todo>>

NextSummary == \E user_id \in AskedIds : GetUserSummary(user_id)

SpecSummary == InitBoard /\ [][NextSummary]_vars

----------------------------------------------------------------------------
(* Readers between the record_result tasks: get_user_summary and leaderboard take no
   lock; a task that calls them runs when the event loop is free, and has the value
   before it gives the loop back. *)

(* leaderboard(limit: int = 10), LEADERBOARD_SIZE "10" *)
DefaultLimit == 10

(* no value read is held *)
NoReadHeld == userSummary = None /\ board = <<>>

(* the reading task is done with what it read *)
ForgetRead ==
    /\ ~NoReadHeld
    /\ userSummary' = None
    /\ board' = <<>>
    /\ UNCHANGED <<stats, processed, lock, running, phase, disk, tmp, pc, arg, ret,
                   entry, returnedTrue, faults>>
    /\ UNCHANGED <<leaderboard_snapshot, gotSnapshot, content, parsed, daily, todo>>

(* a cold start on a path without a file *)
InitReads == Init /\ disk = Missing

(* load() and the steps of the record_result tasks of one run of the process *)
RecordStep ==
    \/ Load
    \/ \E t \in Tasks :
         \/ Call(t)
         \/ Acquire(t)
         \/ Duplicate(t)
         \/ Mutate(t)
         \/ Complete(t)
         \/ PersistOpen(t)
         \/ PersistWrite(t)
         \/ PersistRename(t)
         \/ PersistFails(t)
         \/ ReturnTrue(t)
         \/ Collect(t)

NextReads ==
    \/ NoReadHeld /\ RecordStep
    \/ \E user_id \in AskedIds : GetUserSummary(user_id)
    \/ Leaderboard(DefaultLimit)
    \/ ForgetRead

SpecReads == InitReads /\ [][NextReads]_vars

----------------------------------------------------------------------------
(* Callers that always pass a dedupe key, on a store that starts empty: on_message
   and wordle_backfill pass message_id=message.id, process_daily_summary passes
   message_key="<message id>:<member id>". *)

(* the data file is absent, or load() takes nothing from it *)
InitKeyed ==
    /\ Init
    /\ LoadedStats(disk) = <<>>
    /\ LoadedProcessed(disk) = {}

CallKeyed(t) ==
    /\ Call(t)
    /\ Truthy(DedupKey(arg'[t].message_id, arg'[t].message_key))

NextKeyed ==
    \/ Load
    \/ Crash
    \/ \E t \in Tasks :
         \/ CallKeyed(t)
         \/ Acquire(t)
         \/ Duplicate(t)
         \/ Mutate(t)
         \/ Complete(t)
         \/ PersistOpen(t)
         \/ PersistWrite(t)
         \/ PersistRename(t)
         \/ PersistFails(t)
         \/ ReturnTrue(t)
         \/ Collect(t)

SpecKeyed == InitKeyed /\ [][NextKeyed]_vars

----------------------------------------------------------------------------
(* The leaderboard snapshot.  stats.py holds no update_leaderboard_snapshot and no
   get_leaderboard_snapshot; the test test_leaderboard_snapshot_round_trip calls
   them.  They are modelled from the specification's description: the previously
   published rank order, stored as an explicit ordered list; pure storage. *)

(* the length of a published rank order *)
MaxRanks == 3

(* the user ids of a published rank order *)
RankIds == {Str(i) : i \in 1..MaxRanks}

(* the ordered lists of user ids a caller can publish: every order of every set of
   the ids, and a list that names a user twice *)
RankLists ==
    UNION {{ids \in [1..n -> RankIds] : \A i, j \in 1..n : i # j => ids[i] # ids[j]} :
             n \in 0..MaxRanks}
    \cup {<<"1", "1">>}

(* sorted(ids) without repeats *)
SortedRanks(ids) ==
    SelectSeq([i \in 1..MaxRanks |-> Str(i)], LAMBDA u : u \in Range(ids))

(* the list update_leaderboard_snapshot keeps: a copy of its argument *)
StoredRanks(ids) == [i \in 1..Len(ids) |-> ids[i]]

(* await update_leaderboard_snapshot(ids): a mutation, so it takes the lock; no await
   inside, so it is one step of the event loop *)
update_leaderboard_snapshot(ids) ==
    /\ phase = "ready"
    /\ running = NoTask
    /\ lock = NoTask
    /\ leaderboard_snapshot' = StoredRanks(ids)
    /\ UNCHANGED <<stats, processed, lock, running, phase, disk, tmp, pc, arg, ret,
                   board, entry, returnedTrue, faults>>
    /\ UNCHANGED <<gotSnapshot, userSummary, content, parsed, daily, todo>>

(* get_leaderboard_snapshot() *)
get_leaderboard_snapshot ==
    /\ phase = "ready"
    /\ running = NoTask
    /\ gotSnapshot' = leaderboard_snapshot
    /\ UNCHANGED <<stats, processed, lock, running, phase, disk, tmp, pc, arg, ret,
                   board, entry, returnedTrue, faults>>
    /\ UNCHANGED <<leaderboard_snapshot, userSummary, content, parsed, daily, todo>>

(* the stores the snapshot is published next to: an empty one, and one with a
   player and the dedup key of the player's game *)
SnapshotStores ==
    {<<<<>>, {}>>}
    \cup {<<<<make_player(m.id, m.display_name, 1, 1, 3)>>, {"101"}>> : m \in Members}

InitSnapshot ==
    /\ \E store \in SnapshotStores : stats = store[1] /\ processed = store[2]
    /\ lock = NoTask
    /\ running = NoTask
    /\ phase = "ready"
    /\ disk = Missing
    /\ tmp = Missing
    /\ pc = [t \in Tasks |-> "idle"]
    /\ arg = [t \in Tasks |-> NoArg]
    /\ ret = [t \in Tasks |-> FALSE]
    /\ board = <<>>
    /\ entry = <<stats, processed>>
    /\ returnedTrue = {}
    /\ faults = 0
    /\ NoQueries

NextSnapshot ==
    \/ \E ids \in RankLists : update_leaderboard_snapshot(ids)
    \/ get_leaderboard_snapshot

SpecSnapshot == InitSnapshot /\ [][NextSnapshot]_vars

----------------------------------------------------------------------------
(* parser.py: the text.  A text is the sequence of its characters. *)

(* the number of lines of a message *)
MaxLines == 2

(* the line boundary of the texts of the model: "^" under re.MULTILINE and
   str.splitlines() both take it *)
NewLine == "\n"

(* \s, and what str.strip() strips *)
Whitespace == {" ", NewLine}

(* \d *)
DigitChars == {"0", "1", "2", "3", "4", "5", "6", "7", "8", "9"}

UpperChars ==
    <<"A", "B", "C", "D", "E", "F", "G", "H", "I", "J", "K", "L", "M", "N", "O", "P", "Q",
      "R", "S", "T", "U", "V", "W", "X", "Y", "Z">>

LowerChars ==
    <<"a", "b", "c", "d", "e", "f", "g", "h", "i", "j", "k", "l", "m", "n", "o", "p", "q",
      "r", "s", "t", "u", "v", "w", "x", "y", "z">>

(* [A-Za-z0-9_.-] *)
HandleChars == Range(UpperChars) \cup Range(LowerChars) \cup DigitChars \cup {"_", ".", "-"}

(* str.lower() on the characters of a handle *)
LowerCase(text) ==
    [i \in DOMAIN text |->
       IF text[i] \in Range(UpperChars)
       THEN LowerChars[CHOOSE k \in DOMAIN UpperChars : UpperChars[k] = text[i]]
       ELSE text[i]]

(* int(digits) *)
RECURSIVE DecimalValue(_)
DecimalValue(digits) ==
    IF digits = <<>> THEN 0
    ELSE 10 * DecimalValue(SubSeq(digits, 1, Len(digits) - 1))
         + (CHOOSE v \in 0..9 :
              <<"0", "1", "2", "3", "4", "5", "6", "7", "8", "9">>[v + 1] = digits[Len(digits)])

(* the literal lit is in text at position i *)
HasAt(text, i, lit) ==
    /\ i >= 1
    /\ i + Len(lit) - 1 <= Len(text)
    /\ SubSeq(text, i, i + Len(lit) - 1) = lit

(* a greedy class+ or class* from position i: the position after the run *)
RECURSIVE SkipWhile(_, _, _)
SkipWhile(text, i, class) ==
    IF i <= Len(text) /\ text[i] \in class THEN SkipWhile(text, i + 1, class) ELSE i

(* "^" under re.MULTILINE *)
AtLineStart(text, i) == i = 1 \/ text[i - 1] = NewLine

(* WORDLE_REGEX matched at position i: ^Wordle\s+(\d+)\s+([0-6Xx])/6(\*?).  The classes
   that follow one another are disjoint, so the greedy runs are the only way to match. *)
WordleMatchAt(text, i) ==
    LET a == i + 6
        b == SkipWhile(text, a, Whitespace)
        c == SkipWhile(text, b, DigitChars)
        d == SkipWhile(text, c, Whitespace)
    IN  IF /\ AtLineStart(text, i)
           /\ HasAt(text, i, <<"W", "o", "r", "d", "l", "e">>)
           /\ b > a
           /\ c > b
           /\ d > c
           /\ d <= Len(text)
           /\ text[d] \in ScoreTokens
           /\ HasAt(text, d + 1, <<"/", "6">>)
        THEN Some([start  |-> i,
                   puzzle |-> SubSeq(text, b, c - 1),
                   score  |-> text[d],
                   hard   |-> IF HasAt(text, d + 3, <<"*">>) THEN <<"*">> ELSE <<>>])
        ELSE None

Min(set) == CHOOSE x \in set : \A y \in set : x <= y

(* WORDLE_REGEX.search(content): the leftmost match *)
WordleSearch(text) ==
    LET hits == {i \in 1..Len(text) : WordleMatchAt(text, i) # None}
    IN  IF hits = {} THEN None ELSE WordleMatchAt(text, Min(hits))

(* str.splitlines() *)
RECURSIVE SplitLines(_)
SplitLines(text) ==
    IF text = <<>> THEN <<>>
    ELSE LET n == SkipWhile(text, 1, {ch \in Range(text) : ch # NewLine})
         IN  <<SubSeq(text, 1, n - 1)>> \o SplitLines(SubSeq(text, n + 1, Len(text)))

(* str.rstrip() *)
RECURSIVE RStrip(_)
RStrip(text) ==
    IF text # <<>> /\ text[Len(text)] \in Whitespace
    THEN RStrip(SubSeq(text, 1, Len(text) - 1))
    ELSE text

(* str.strip() *)
Strip(text) == RStrip(SubSeq(text, SkipWhile(text, 1, Whitespace), Len(text)))

(* lines 52-56: the lines that are not blank, each without its trailing whitespace *)
BoardLines(lines) ==
    LET kept == SelectSeq(lines, LAMBDA line : Strip(line) # <<>>)
    IN  [k \in DOMAIN kept |-> RStrip(kept[k])]

(* parse_wordle_message *)
parse_wordle_message(text) ==
    IF text = <<>> THEN None
    ELSE LET match == WordleSearch(text)
         IN  IF match = None THEN None
             ELSE Some([board |-> Slice(BoardLines(Tail(SplitLines(text))), 6)]
                       @@ WordleResult(DecimalValue(Val(match).puzzle),
                                       Val(match).score,
                                       Val(match).hard # <<>>))

(* SUMMARY_LINE_REGEX.search(line): ([0-6Xx])/6:\s*(.+), the leftmost match.  ".+"
   takes the rest of the line and needs one character, which "\s*" gives back when
   the rest is blank; body is match.group("body").strip() *)
SummaryMatch(line) ==
    LET hits == {i \in 1..Len(line) :
                   /\ line[i] \in ScoreTokens
                   /\ HasAt(line, i + 1, <<"/", "6", ":">>)
                   /\ i + 4 <= Len(line)}
    IN  IF hits = {} THEN None
        ELSE Some([score |-> line[Min(hits)],
                   body  |-> Strip(SubSeq(line, Min(hits) + 4, Len(line)))])

(* MENTION_REGEX matched at position i: <@!?(\d+)> ; the position after the match,
   or 0 *)
MentionEnd(text, i) ==
    LET a == IF HasAt(text, i + 2, <<"!">>) THEN i + 3 ELSE i + 2
        c == SkipWhile(text, a, DigitChars)
    IN  IF HasAt(text, i, <<"<", "@">>) /\ c > a /\ HasAt(text, c, <<">">>)
        THEN c + 1
        ELSE 0

(* the group "id" of the match at position i *)
MentionId(text, i) ==
    LET a == IF HasAt(text, i + 2, <<"!">>) THEN i + 3 ELSE i + 2
    IN  SubSeq(text, a, MentionEnd(text, i) - 2)

(* MENTION_REGEX.findall(body), from position i on *)
RECURSIVE FindMentions(_, _)
FindMentions(text, i) ==
    IF i > Len(text) THEN <<>>
    ELSE IF MentionEnd(text, i) # 0
         THEN <<MentionId(text, i)>> \o FindMentions(text, MentionEnd(text, i))
         ELSE FindMentions(text, i + 1)

(* MENTION_REGEX.sub(" ", body), from position i on *)
RECURSIVE SubMentions(_, _)
SubMentions(text, i) ==
    IF i > Len(text) THEN <<>>
    ELSE IF MentionEnd(text, i) # 0
         THEN <<" ">> \o SubMentions(text, MentionEnd(text, i))
         ELSE <<text[i]>> \o SubMentions(text, i + 1)

(* PLAIN_HANDLE_REGEX.finditer(stripped_body): @([A-Za-z0-9_.-]+), from position i on *)
RECURSIVE FindHandles(_, _)
FindHandles(text, i) ==
    IF i > Len(text) THEN <<>>
    ELSE LET c == SkipWhile(text, i + 1, HandleChars)
         IN  IF text[i] = "@" /\ c > i + 1
             THEN <<SubSeq(text, i + 1, c - 1)>> \o FindHandles(text, c)
             ELSE FindHandles(text, i + 1)

(* DailySummaryEntry(user_id=, handle=, success=, attempts=) *)
DailySummaryEntry(user_id, handle, score) ==
    [user_id  |-> user_id,
     handle   |-> handle,
     success  |-> ScoreSuccess(score),
     attempts |-> ScoreAttempts(score)]

(* the mentions of a body and then its plain handles, in the order the two loops of
   lines 91-109 meet them *)
Candidates(body) ==
    LET ids     == FindMentions(body, 1)
        handles == FindHandles(SubMentions(body, 1), 1)
    IN  [k \in DOMAIN ids |-> [user_id |-> Some(DecimalValue(ids[k])), handle |-> None]]
        \o [k \in DOMAIN handles |-> [user_id |-> None, handle |-> Some(handles[k])]]

(* seen: the keys f"id:{user_id}" and f"handle:{handle.lower()}", kept as the set of
   the ids and the set of the lower-cased handles *)
NoneSeen == [ids |-> {}, handles |-> {}]

SeenNever(cand, seen) == FALSE

(* key in seen *)
Seen(cand, seen) ==
    IF cand.user_id # None
    THEN Val(cand.user_id) \in seen.ids
    ELSE LowerCase(Val(cand.handle)) \in seen.handles

(* seen.add(key) *)
Remember(cand, seen) ==
    IF cand.user_id # None
    THEN [seen EXCEPT !.ids = @ \cup {Val(cand.user_id)}]
    ELSE [seen EXCEPT !.handles = @ \cup {LowerCase(Val(cand.handle))}]

(* the two for loops over one line: acc is <<entries, seen>> *)
RECURSIVE Emit(_, _, _)
Emit(cands, score, acc) ==
    IF cands = <<>> THEN acc
    ELSE IF Seen(Head(cands), acc[2])
         THEN Emit(Tail(cands), score, acc)
         ELSE Emit(Tail(cands), score,
                   <<Append(acc[1], DailySummaryEntry(Head(cands).user_id,
                                                      Head(cands).handle, score)),
                     Remember(Head(cands), acc[2])>>)

(* the loop over content.splitlines() *)
RECURSIVE SummaryLines(_, _)
SummaryLines(lines, acc) ==
    IF lines = <<>> THEN acc
    ELSE LET match == SummaryMatch(Head(lines))
         IN  SummaryLines(Tail(lines),
                          IF match = None THEN acc
                          ELSE Emit(Candidates(Val(match).body), Val(match).score, acc))

(* parse_daily_summary *)
parse_daily_summary(text) ==
    IF text = <<>> THEN <<>>
    ELSE SummaryLines(SplitLines(text), <<<<>>, NoneSeen>>)[1]

(* The lines of the messages: share lines (hard mode, failed, score 0), the start of
   a share line, a share line that does not start its line, a grid row, blank lines,
   score lines of a daily summary, and a line of talk. *)
LineShapes ==
    {<<"W", "o", "r", "d", "l", "e", " ", "7", " ", "3", "/", "6", "*">>,
     <<"W", "o", "r", "d", "l", "e", " ", "7", " ", "X", "/", "6">>,
     <<"W", "o", "r", "d", "l", "e", " ", "1", "2", " ", "x", "/", "6">>,
     <<"W", "o", "r", "d", "l", "e", " ", "7", " ", "0", "/", "6">>,
     <<"W", "o", "r", "d", "l", "e", " ", "7">>,
     <<" ", "W", "o", "r", "d", "l", "e", " ", "7", " ", "3", "/", "6">>,
     <<"g", "g", " ">>,
     <<" ">>,
     <<>>,
     <<"3", "/", "6", ":", " ", "<", "@", "1", ">", " ", "@", "A", "l">>,
     <<"X", "/", "6", ":", " ", "<", "@", "!", "1", ">", "@", "a", "l", " ", "<", "@", "2", ">">>,
     <<"0", "/", "6", ":", " ", "@", "b", " ", "@", "A", "l">>,
     <<"h", "i", " ", "<", "@", "2", ">">>}

(* "\n".join(lines) *)
RECURSIVE JoinLines(_)
JoinLines(lines) ==
    IF lines = <<>> THEN <<>>
    ELSE IF Len(lines) = 1 THEN lines[1]
    ELSE lines[1] \o <<NewLine>> \o JoinLines(Tail(lines))

(* a share line followed by a grid of eight rows *)
LongShare ==
    JoinLines(<<<<"W", "o", "r", "d", "l", "e", " ", "7", " ", "3", "/", "6">>>> \o [k \in 1..8 |-> <<"g", <<"1", "2", "3", "4", "5", "6", "7", "8">>[k]>>])

(* the texts of the messages the parser is given; the text of no line is the empty
   message *)
Contents ==
    {JoinLines(lines) : lines \in UNION {[1..n -> LineShapes] : n \in 0..MaxLines}}
    \cup {LongShare}

(* a message arrives: message.content *)
InitParser ==
    /\ stats = <<>>
    /\ processed = {}
    /\ lock = NoTask
    /\ running = NoTask
    /\ phase = "ready"
    /\ disk = Missing
    /\ tmp = Missing
    /\ pc = [t \in Tasks |-> "idle"]
    /\ arg = [t \in Tasks |-> NoArg]
    /\ ret = [t \in Tasks |-> FALSE]
    /\ board = <<>>
    /\ entry = <<stats, processed>>
    /\ returnedTrue = {}
    /\ faults = 0
    /\ leaderboard_snapshot = <<>>
    /\ gotSnapshot = <<>>
    /\ userSummary = None
    /\ content \in Contents
    /\ parsed = None
    /\ daily = <<>>
    /\ todo = [t \in Tasks |-> <<>>]

(* on_message, wordle_backfill: result = parse_wordle_message(message.content) *)
ParseWordleMessage ==
    /\ parsed' = parse_wordle_message(content)
    /\ UNCHANGED <<stats, processed, lock, running, phase, disk, tmp, pc, arg, ret,
                   board, entry, returnedTrue, faults>>
    /\ UNCHANGED <<leaderboard_snapshot, gotSnapshot, userSummary, content, daily, todo>>

(* process_daily_summary: entries = parse_daily_summary(message.content) *)
ParseDailySummary ==
    /\ daily' = parse_daily_summary(content)
    /\ UNCHANGED <<stats, processed, lock, running, phase, disk, tmp, pc, arg, ret,
                   board, entry, returnedTrue, faults>>
    /\ UNCHANGED <<leaderboard_snapshot, gotSnapshot, userSummary, content, parsed, todo>>

NextParser == ParseWordleMessage \/ ParseDailySummary

SpecParser == InitParser /\ [][NextParser]_vars

----------------------------------------------------------------------------
(* bot.py: process_daily_summary on one message (id 101), run by on_message and by
   wordle_backfill, any number of times and by two tasks at once. A task holds one
   run: todo is the rest of its loop `for entry in entries`, and pc, arg, ret follow
   the record_result call the loop is awaiting. *)

(* the score lines of LineShapes *)
SummaryShapes ==
    <<<<"3", "/", "6", ":", " ", "<", "@", "1", ">", " ", "@", "A", "l">>,
      <<"X", "/", "6", ":", " ", "<", "@", "!", "1", ">", "@", "a", "l", " ", "<", "@", "2", ">">>,
      <<"0", "/", "6", ":", " ", "@", "b", " ", "@", "A", "l">>>>

(* message.content of the summary message: one score line, or two score lines with
   different scores *)
DailyTexts ==
    {JoinLines(<<SummaryShapes[i]>>) : i \in DOMAIN SummaryShapes}
    \cup {JoinLines(<<SummaryShapes[1], SummaryShapes[3]>>),
          JoinLines(<<SummaryShapes[2], SummaryShapes[3]>>)}

(* resolve_member(entry): an id resolves to the member with that id (mention_map,
   get_member, fetch_member) or to nobody; a handle resolves to whatever member
   get_member_named, the scan of guild.members or query_members gives (results[0]
   when no name matches), or to nobody. *)
ResolveMember(e) ==
    IF e.user_id # None
    THEN {Some(m) : m \in {x \in Members : x.id = Str(Val(e.user_id))}} \cup {None}
    ELSE {Some(m) : m \in Members} \cup {None}

DailyKeyEmpty(message_id, member_id) == ""

(* dedupe_key = f"{message.id}:{member.id}" *)
DailyKey(message_id, member_id) == StrId(message_id) \o ":" \o member_id

(* the store is new; the summary message has some text with entries *)
InitDaily ==
    /\ stats = <<>>
    /\ processed = {}
    /\ lock = NoTask
    /\ running = NoTask
    /\ phase = "constructed"
    /\ disk = Missing
    /\ tmp = Missing
    /\ pc = [t \in Tasks |-> "idle"]
    /\ arg = [t \in Tasks |-> NoArg]
    /\ ret = [t \in Tasks |-> FALSE]
    /\ board = <<>>
    /\ entry = <<stats, processed>>
    /\ returnedTrue = {}
    /\ faults = 0
    /\ leaderboard_snapshot = <<>>
    /\ gotSnapshot = <<>>
    /\ userSummary = None
    /\ content \in DailyTexts
    /\ parsed = None
    /\ daily = <<>>
    /\ todo = [t \in Tasks |-> <<>>]

(* lines 60-62: entries = parse_daily_summary(message.content), not empty *)
ProcessDailySummary(t) ==
    /\ phase = "ready"
    /\ running = NoTask
    /\ pc[t] = "idle"
    /\ todo[t] = <<>>
    /\ parse_daily_summary(content) # <<>>
    /\ daily' = parse_daily_summary(content)
    /\ todo' = [todo EXCEPT ![t] = daily']
    /\ UNCHANGED <<stats, processed, lock, running, phase, disk, tmp, pc, arg, ret,
                   board, entry, returnedTrue, faults>>
    /\ UNCHANGED <<leaderboard_snapshot, gotSnapshot, userSummary, content, parsed>>

(* lines 121-137: one round of the loop, up to the call of record_result; an entry
   that resolves to nobody is skipped *)
RecordEntry(t) ==
    /\ phase = "ready"
    /\ running = NoTask
    /\ pc[t] = "idle"
    /\ todo[t] # <<>>
    /\ todo' = [todo EXCEPT ![t] = Tail(todo[t])]
    /\ \E member \in ResolveMember(Head(todo[t])) :
         IF member = None
         THEN UNCHANGED <<pc, arg>>
         ELSE LET m   == Val(member)
                  e   == Head(todo[t])
                  key == Some(DailyKey(101, m.id))
              IN  /\ arg' = [arg EXCEPT ![t] =
                              [user_id |-> m.id, display_name |-> m.display_name,
                               result |-> [puzzle_number |-> None,
                                           success       |-> e.success,
                                           attempts      |-> e.attempts,
                                           hard_mode     |-> FALSE],
                               message_id |-> None, message_key |-> key,
                               fresh  |-> ~IsDuplicate(key, processed),
                               played |-> GamesPlayedOf(stats, m.id)]]
                  /\ pc' = [pc EXCEPT ![t] = "start"]
    /\ UNCHANGED <<stats, processed, lock, running, phase, disk, tmp, ret, board,
                   entry, returnedTrue, faults>>
    /\ UNCHANGED <<leaderboard_snapshot, gotSnapshot, userSummary, content, parsed,
                   daily>>

(* lines 137-141: record_result has returned; the loop goes on *)
Counted(t) ==
    /\ pc[t] = "done"
    /\ Collect(t)

(* the OSError of record_result leaves process_daily_summary: the run is over *)
Propagate(t) ==
    /\ running = NoTask
    /\ pc[t] = "raised"
    /\ pc' = [pc EXCEPT ![t] = "idle"]
    /\ arg' = [arg EXCEPT ![t] = NoArg]
    /\ ret' = [ret EXCEPT ![t] = FALSE]
    /\ todo' = [todo EXCEPT ![t] = <<>>]
    /\ UNCHANGED <<stats, processed, lock, running, phase, disk, tmp, board, entry,
                   returnedTrue, faults>>
    /\ UNCHANGED <<leaderboard_snapshot, gotSnapshot, userSummary, content, parsed,
                   daily>>

(* The process dies and is started again, as in Crash; the runs die with it. *)
Restart ==
    /\ phase = "ready"
    /\ stats' = <<>>
    /\ processed' = {}
    /\ lock' = NoTask
    /\ running' = NoTask
    /\ phase' = "constructed"
    /\ pc' = [t \in Tasks |-> "idle"]
    /\ arg' = [t \in Tasks |-> NoArg]
    /\ ret' = [t \in Tasks |-> FALSE]
    /\ entry' = <<stats', processed'>>
    /\ todo' = [t \in Tasks |-> <<>>]
    /\ faults < MaxFaults
    /\ faults' = faults + 1
    /\ UNCHANGED <<disk, tmp, board, returnedTrue>>
    /\ UNCHANGED <<leaderboard_snapshot, gotSnapshot, userSummary, content, parsed,
                   daily>>

NextDaily ==
    \/ Load
    \/ Restart
    \/ \E t \in Tasks :
         \/ ProcessDailySummary(t)
         \/ RecordEntry(t)
         \/ Acquire(t)
         \/ Duplicate(t)
         \/ Mutate(t)
         \/ Complete(t)
         \/ PersistOpen(t)
         \/ PersistWrite(t)
         \/ PersistRename(t)
         \/ PersistFails(t)
         \/ ReturnTrue(t)
         \/ Counted(t)
         \/ Propagate(t)

SpecDaily == InitDaily /\ [][NextDaily]_vars

----------------------------------------------------------------------------
(* Properties of record_result, _persist_locked and load *)

InBody(t) == pc[t] \in {"locked", "counted", "persist", "opened", "written", "renamed"}

(* the step in which the call of task t leaves its duplicate check *)
LeavesCheck(t) == pc[t] = "locked" /\ pc'[t] # "locked" /\ phase' = "ready"

(* the step in which the call of task t returns *)
Returns(t, value) == pc[t] # "done" /\ pc'[t] = "done" /\ ret'[t] = value

NoEffect(t) ==
    /\ pc'[t] = "done"
    /\ ret'[t] = FALSE
    /\ stats' = stats
    /\ processed' = processed

(* C1 as stated: once a call carrying key k has returned True, every later call
   carrying k returns False and leaves the aggregates and the dedup set as they were,
   for every key k a caller can pass, the empty message_key among them. *)
C1_EveryKeyIdempotent ==
    [][\A t \in Tasks :
         (LeavesCheck(t) /\ KeyOf(t) # None /\ Val(KeyOf(t)) \in returnedTrue)
         => NoEffect(t)]_vars

(* C1 amended: once a call carrying a non-empty key k has returned True, every later
   call carrying k (also after a restart) returns False and leaves every aggregate and
   the dedup set exactly as they were before that call. *)
C1_NonEmptyKeyIdempotent ==
    [][\A t \in Tasks :
         (LeavesCheck(t) /\ Truthy(KeyOf(t)) /\ Val(KeyOf(t)) \in returnedTrue)
         => NoEffect(t) /\ <<stats', processed'>> = entry]_vars

(* C1 witness: a call carrying a non-empty key that had returned True has returned
   False. *)
C1_Witness ==
    \E t \in Tasks :
      /\ pc[t] = "done"
      /\ ~ret[t]
      /\ Truthy(KeyOf(t))
      /\ Val(KeyOf(t)) \in returnedTrue

(* C2: at most one task is inside the lock-guarded body, and it holds the lock; of two
   calls for one user that were pending together with the same non-empty key, unseen
   when they were made, and that both returned, exactly one returned True and the
   user's games_played has grown by exactly 1 since the two were pending. *)
C2_ExactlyOnceUnderInterleaving ==
    /\ Cardinality({t \in Tasks : InBody(t)}) <= 1
    /\ \A t \in Tasks : InBody(t) => lock = t /\ running = t
    /\ \A t1, t2 \in Tasks :
         ( /\ t1 # t2
           /\ pc[t1] = "done" /\ pc[t2] = "done"
           /\ arg[t1].fresh /\ arg[t2].fresh
           /\ Truthy(KeyOf(t1)) /\ KeyOf(t1) = KeyOf(t2)
           /\ arg[t1].user_id = arg[t2].user_id )
         => /\ ret[t1] # ret[t2]
            /\ GamesPlayedOf(stats, arg[t1].user_id)
                 = (IF arg[t1].played > arg[t2].played
                    THEN arg[t1].played ELSE arg[t2].played) + 1

(* C2 witness: two calls sharing a fresh non-empty key were pending together and have
   both returned. *)
C2_Witness ==
    \E t1, t2 \in Tasks :
      /\ t1 # t2
      /\ pc[t1] = "done" /\ pc[t2] = "done"
      /\ arg[t1].fresh /\ arg[t2].fresh
      /\ Truthy(KeyOf(t1)) /\ KeyOf(t1) = KeyOf(t2)
      /\ arg[t1].user_id = arg[t2].user_id
      /\ ret[t1] /\ ~ret[t2]

(* C3: in every step, a process death included, the canonical file either keeps its
   content or becomes the complete new snapshot; a truncated document is never at the
   canonical path. *)
C3_CanonicalFileWholeOrUntouched ==
    [][disk' = disk \/ disk' = Payload(stats, processed)]_vars

(* C3 witness: the process died between the opening of the temp file and the rename,
   and the canonical file still holds the previous snapshot with its players. *)
C3_Witness ==
    /\ phase = "constructed"
    /\ tmp # Missing
    /\ disk.kind = "dict"
    /\ disk.users # <<>>

(* C4: when a call returns True the canonical file holds the complete snapshot with the
   call's dedupe key in processed_messages and the user's updated aggregate. *)
C4_TrueOnlyAfterDurableWrite ==
    [][\A t \in Tasks :
         Returns(t, TRUE)
         => /\ disk'.kind = "dict" /\ disk'.usersIsDict /\ disk'.processedIsList
            /\ Truthy(KeyOf(t)) => Val(KeyOf(t)) \in Range(disk'.processed_messages)
            /\ arg[t].user_id \in UserIdsOf(disk'.users)
            /\ LET u == arg[t].user_id
               IN  /\ disk'.users[IndexOf(disk'.users, u)] = stats'[IndexOf(stats', u)]
                   /\ GamesPlayedOf(disk'.users, u) = GamesPlayedOf(entry[1], u) + 1]_vars

(* C4 witness: a call with a dedupe key has returned True and the canonical file
   holds the key. *)
C4_Witness ==
    \E t \in Tasks :
      /\ pc[t] = "done"
      /\ ret[t]
      /\ Truthy(KeyOf(t))
      /\ disk.kind = "dict"
      /\ Val(KeyOf(t)) \in Range(disk.processed_messages)

(* C5: when a call returns True, load() on the canonical file gives the aggregates and
   the dedup set the writer holds; and every non-empty key of a call that returned True
   is in the dedup set of every loaded store, so that replaying it is a duplicate. *)
C5_PersistLoadRoundTrip ==
    [][/\ \A t \in Tasks :
            Returns(t, TRUE)
            => /\ LoadedStats(disk') = stats'
               /\ LoadedProcessed(disk') = processed'
       /\ phase' = "ready" => (returnedTrue' \ {""}) \subseteq processed']_vars

(* C5 witness: the process was started again on a path whose snapshot holds players and
   the key of a call that returned True. *)
C5_Witness ==
    /\ phase = "constructed"
    /\ LoadedStats(disk) # <<>>
    /\ LoadedProcessed(disk) \cap returnedTrue # {}

(* C6 as stated: when the write or the rename fails the call raises, and the aggregates
   and the dedup set are the same as before the call. *)
C6_FailedWriteLeavesMemoryUntouched ==
    [][\A t \in Tasks :
         (pc[t] # "raised" /\ pc'[t] = "raised")
         => <<stats', processed'>> = entry]_vars

StructurallyInvalid(file) ==
    \/ file.kind \in {"missing", "malformed", "notdict"}
    \/ file.kind = "dict" /\ ~file.usersIsDict

(* C7 as stated: load() on a missing file, malformed JSON, a top-level value that is no
   object, or an object whose users member is no mapping, ends with an empty aggregate
   map and an empty dedup set. *)
C7_InvalidSnapshotLoadsEmpty ==
    [][(phase = "constructed" /\ phase' = "ready" /\ StructurallyInvalid(disk))
       => (stats' = <<>> /\ processed' = {})]_vars

Consistent(st) == st.games_played = st.wins + st.losses /\ st.games_played >= 1

(* C8: between calls, every aggregate in memory has games_played = wins + losses and
   games_played >= 1, and so has every aggregate load() would read from the canonical
   file. *)
C8_GamesPlayedIsWinsPlusLosses ==
    /\ running = NoTask => \A i \in DOMAIN stats : Consistent(stats[i])
    /\ \A i \in DOMAIN LoadedStats(disk) : Consistent(LoadedStats(disk)[i])

(* C8 witness: a player with a win and a loss is in memory and in the canonical file. *)
C8_Witness ==
    /\ running = NoTask
    /\ \E i \in DOMAIN stats : stats[i].wins >= 1 /\ stats[i].losses >= 1
    /\ LoadedStats(disk) = stats

RECURSIVE SumOver(_, _)
SumOver(f, keys) ==
    IF keys = {} THEN 0
    ELSE LET k == CHOOSE x \in keys : TRUE
         IN  (IF k \in DOMAIN f THEN f[k] ELSE 0) + SumOver(f, keys \ {k})

(* C9 as stated: between calls, in a run without write errors, for every player the counts of guess_distribution under
   "1".."6" sum to wins, in the stored aggregate and in the summary of
   get_user_summary. *)
C9_DistributionSumsToWins ==
    (running = NoTask /\ faults = 0)
    => \A i \in DOMAIN stats :
         /\ SumOver(stats[i].guess_distribution, BucketRange) = stats[i].wins
         /\ LET summary == Val(get_user_summary(stats, stats[i].user_id))
            IN  SumOver(summary.guess_distribution, BucketRange) = summary.wins

(* average_attempts(a) < average_attempts(b), no wins counting as after every average *)
AverageBefore(a, b) ==
    /\ a.average_attempts # None
    /\ \/ b.average_attempts = None
       \/ QLess(Val(a.average_attempts), Val(b.average_attempts))

(* the order of C10 between an entry a placed before an entry b *)
RankedBefore(a, b) ==
    \/ QLess(b.win_rate, a.win_rate)
    \/ /\ a.win_rate = b.win_rate
       /\ \/ AverageBefore(a, b)
          \/ /\ a.average_attempts = b.average_attempts
             /\ \/ a.wins > b.wins
                \/ /\ a.wins = b.wins
                   /\ ~StrLess(Lower(b.display_name), Lower(a.display_name))

(* C10: in every list leaderboard() returns, an entry placed before another has the
   higher win rate; or the same win rate and the lower average attempts (no wins last);
   or those equal and more wins; or those equal and a lower-cased display name that is
   not greater. *)
C10_LeaderboardOrder ==
    \A i, j \in DOMAIN board : i < j => RankedBefore(board[i], board[j])

(* C10 witness: the entry placed first has the higher win rate and the worse average
   attempts. *)
C10_Witness ==
    /\ Len(board) = 2
    /\ QLess(board[2].win_rate, board[1].win_rate)
    /\ AverageBefore(board[2], board[1])

----------------------------------------------------------------------------
(* Properties of leaderboard *)

(* the same items, inserted in the opposite order *)
Reverse(s) == [i \in DOMAIN s |-> s[Len(s) + 1 - i]]

(* C11 as stated: a store that holds the same aggregates inserted in another order
   returns the same leaderboard sequence, for every limit: no two players are left in
   the order of their insertion. *)
C11_OrderIndependentOfInsertion ==
    [][\A limit \in Limits :
         Leaderboard(limit) => board' = leaderboard(Reverse(stats), limit)]_vars

EligibleIds(s) == {s[i].user_id : i \in {j \in DOMAIN s : s[j].games_played > 0}}

BoardIds(b) == {b[i].user_id : i \in DOMAIN b}

(* C12: for every store and every limit, every entry leaderboard(limit) returns is a
   player of the store whose games_played is above 0, and when the limit is at least
   the number of such players, every one of them is in the list. *)
C12_OnlyAndAllPlayersWithGames ==
    [][\A limit \in Limits :
         Leaderboard(limit)
         => /\ \A i \in DOMAIN board' :
                 /\ board'[i].games_played > 0
                 /\ GamesPlayedOf(stats, board'[i].user_id) > 0
            /\ limit >= Cardinality(EligibleIds(stats))
                 => BoardIds(board') = EligibleIds(stats)]_vars

(* C12 witness: of the two players of the store the one without games was left out
   and the other one is on the list. *)
C12_Witness ==
    /\ Len(stats) = 2
    /\ Len(board) = 1
    /\ \E i \in DOMAIN stats : stats[i].games_played = 0
    /\ BoardIds(board) = EligibleIds(stats)

IsPrefix(a, b) == Len(a) <= Len(b) /\ a = SubSeq(b, 1, Len(a))

(* C13 as stated: for every integer limit, negative ones and 0 among them,
   leaderboard(limit) returns a prefix of the full ranking with at most max(limit, 0)
   entries. *)
C13_AtMostLimitEntries ==
    [][\A limit \in Limits :
         Leaderboard(limit)
         => /\ IsPrefix(board', SortEntries(Entries(stats)))
            /\ Len(board') <= (IF limit > 0 THEN limit ELSE 0)]_vars

----------------------------------------------------------------------------
(* Properties of the leaderboard snapshot *)

(* C14: update_leaderboard_snapshot(L) leaves a snapshot such that a
   get_leaderboard_snapshot() that follows returns exactly L, the same elements in
   the same order; get_leaderboard_snapshot returns the list the last update
   left; and neither changes a user aggregate, a dedup key or a file. *)
C14_SnapshotRoundTrip ==
    [][/\ \A ids \in RankLists :
            update_leaderboard_snapshot(ids)
            => /\ leaderboard_snapshot' = ids
               /\ ENABLED get_leaderboard_snapshot
       /\ get_leaderboard_snapshot => gotSnapshot' = leaderboard_snapshot
       /\ <<stats', processed', disk', tmp'>> = <<stats, processed, disk, tmp>>]_vars

(* C14 witness: the order 1, 3, 2 was published next to a store that holds a player
   and a dedup key, and was read back. *)
C14_Witness ==
    /\ leaderboard_snapshot = <<"1", "3", "2">>
    /\ gotSnapshot = <<"1", "3", "2">>
    /\ stats # <<>>
    /\ processed # {}

----------------------------------------------------------------------------
(* Properties of get_user_summary *)

(* the fraction q is the quotient n / d *)
IsQuotient(q, n, d) == q[2] > 0 /\ q[1] * d = n * q[2]

(* C15: get_user_summary returns nothing exactly when the store has no aggregate
   for the user; otherwise a summary with the aggregate's counters, with
   win_rate = wins / games_played (0 when games_played is 0) and
   average_attempts = total_attempts / wins (nothing when wins is 0), every divisor
   being above 0; and it leaves the aggregates and the dedup set as they were. *)
C15_SummaryIsPureProjection ==
    [][\A user_id \in AskedIds :
         GetUserSummary(user_id)
         => /\ (userSummary' = None) <=> (user_id \notin UserIdsOf(stats))
            /\ userSummary' # None
                 => LET st == stats[IndexOf(stats, user_id)]
                        sm == Val(userSummary')
                    IN  /\ sm.user_id = user_id
                        /\ sm.display_name = st.display_name
                        /\ sm.games_played = st.games_played
                        /\ sm.wins = st.wins
                        /\ sm.losses = st.losses
                        /\ sm.total_attempts = st.total_attempts
                        /\ sm.last_puzzle = st.last_puzzle
                        /\ \A bucket \in BucketRange :
                             sm.guess_distribution[bucket] = st.guess_distribution[bucket]
                        /\ IF st.games_played = 0
                           THEN sm.win_rate = <<0, 1>>
                           ELSE IsQuotient(sm.win_rate, st.wins, st.games_played)
                        /\ IF st.wins = 0
                           THEN sm.average_attempts = None
                           ELSE /\ sm.average_attempts # None
                                /\ IsQuotient(Val(sm.average_attempts),
                                              st.total_attempts, st.wins)
            /\ stats' = stats
            /\ processed' = processed]_vars

(* C15 witness: the summary of a player with two games, one win in three attempts,
   was returned: win_rate 1/2, average_attempts 3. *)
C15_Witness ==
    /\ userSummary # None
    /\ Val(userSummary).games_played = 2
    /\ Val(userSummary).win_rate = <<1, 2>>
    /\ Val(userSummary).average_attempts = Some(<<3, 1>>)
    /\ Val(userSummary).user_id \in UserIdsOf(stats)

----------------------------------------------------------------------------
(* Properties of the parser *)

(* C16: parse_wordle_message returns nothing exactly for the texts without a share
   line (a match of WORDLE_REGEX), the empty text among them; for a text with one
   the result's success is false iff the score token is X or x, attempts is set iff
   success is true, and is then the number the digit of the token writes. *)
C16_ShareLineParsed ==
    [][ParseWordleMessage
       => LET match == WordleSearch(content)
          IN  /\ (parsed' = None) <=> (match = None)
              /\ parsed' # None
                   => /\ (~Val(parsed').success) <=> (Val(match).score \in {"X", "x"})
                      /\ (Val(parsed').attempts # None) <=> Val(parsed').success
                      /\ Val(parsed').success
                           => Str(Val(Val(parsed').attempts)) = Val(match).score]_vars

(* C16 witness: a text whose share line has the score token x was parsed: no
   success, no attempts. *)
C16_Witness ==
    /\ parsed # None
    /\ WordleSearch(content) # None
    /\ Val(WordleSearch(content)).score = "x"
    /\ ~Val(parsed).success
    /\ Val(parsed).attempts = None

(* C17 as stated: every result of parse_wordle_message and every entry of
   parse_daily_summary with success = true has attempts in 1..6. *)
C17_SuccessHasOneToSixAttempts ==
    /\ (parsed # None /\ Val(parsed).success)
         => (Val(parsed).attempts # None /\ Val(parsed).attempts \subseteq 1..6)
    /\ \A k \in DOMAIN daily :
         daily[k].success
         => (daily[k].attempts # None /\ daily[k].attempts \subseteq 1..6)

(* the score line mentions the user or names the handle of the entry *)
Occurs(e, line) ==
    LET match == SummaryMatch(line)
    IN  /\ match # None
        /\ \E cand \in Range(Candidates(Val(match).body)) :
             IF e.user_id # None
             THEN cand.user_id = e.user_id
             ELSE /\ cand.handle # None
                  /\ LowerCase(Val(cand.handle)) = LowerCase(Val(e.handle))

(* the score token of the first of the lines the entry occurs in, if there is one *)
RECURSIVE FirstScore(_, _)
FirstScore(e, lines) ==
    IF lines = <<>> THEN None
    ELSE IF Occurs(e, Head(lines)) THEN Some(Val(SummaryMatch(Head(lines))).score)
    ELSE FirstScore(e, Tail(lines))

(* the entry carries the success and attempts the score token stands for *)
Carries(e, score) ==
    /\ score # None
    /\ e.success = (Val(score) \notin {"X", "x"})
    /\ e.attempts = (IF Val(score) \in {"X", "x"} THEN None
                     ELSE {n \in 0..6 : Str(n) = Val(score)})

(* C18: the entries one call of parse_daily_summary returns hold no user_id twice and
   no two handles that are equal ignoring case; each entry carries the success and
   attempts of the first score line its mention or handle occurs in. *)
C18_SummaryEntriesUnique ==
    [][ParseDailySummary
       => /\ \A i, j \in DOMAIN daily' :
               i < j
               => /\ daily'[i].user_id = None \/ daily'[i].user_id # daily'[j].user_id
                  /\ \/ daily'[i].handle = None
                     \/ daily'[j].handle = None
                     \/ LowerCase(Val(daily'[i].handle)) # LowerCase(Val(daily'[j].handle))
          /\ \A i \in DOMAIN daily' :
               Carries(daily'[i], FirstScore(daily'[i], SplitLines(content)))]_vars

(* C18 witness: user 1 and the handle Al are in a score line 3/6 and again (as al)
   in a score line X/6; the entries are user 1 and Al with 3 attempts and user 2
   without success. *)
C18_Witness ==
    /\ Len(SplitLines(content)) = 2
    /\ Len(daily) = 3
    /\ daily[1].user_id = Some(1) /\ daily[1].attempts = Some(3)
    /\ daily[2].handle = Some(<<"A", "l">>) /\ daily[2].attempts = Some(3)
    /\ daily[3].user_id = Some(2) /\ ~daily[3].success

(* the number of the line of text that holds position i *)
LineOf(text, i) == 1 + Cardinality({k \in 1..(i - 1) : text[k] = NewLine})

(* C19 as stated: wherever the share line is, board is the first up to 6 non-blank
   lines after the matched line, in their order, without their trailing whitespace;
   the matched line and the lines before it are not in board. *)
C19_BoardFollowsMatchedLine ==
    [][ParseWordleMessage
       => (parsed' # None
           => LET lines == SplitLines(content)
                  at    == LineOf(content, Val(WordleSearch(content)).start)
                  rows  == BoardLines(SubSeq(lines, at + 1, Len(lines)))
              IN  Val(parsed').board
                    = SubSeq(rows, 1, IF Len(rows) < 6 THEN Len(rows) ELSE 6))]_vars

----------------------------------------------------------------------------
(* The effect of one recorded result *)

(* the aggregate of the user, a blank one when the store has none *)
AggregateOf(s, user_id) ==
    IF user_id \in UserIdsOf(s) THEN s[IndexOf(s, user_id)]
    ELSE _blank_stats(user_id, <<>>)

BucketCount(st, bucket) ==
    IF bucket \in DOMAIN st.guess_distribution THEN st.guess_distribution[bucket] ELSE 0

AllBuckets == BucketRange \cup {"0"}

(* C20: when a call returns True, the user's aggregate differs from the one the call
   found by exactly one game: for a successful result wins + 1, total_attempts +
   attempts, the bucket str(attempts) + 1, every other bucket and losses the same;
   for a failed result losses + 1 and wins, total_attempts and every bucket the same;
   and the store holds the same other users with the same aggregates. *)
C20_OneGamePerRecordedResult ==
    [][\A t \in Tasks :
         Returns(t, TRUE)
         => LET user   == arg[t].user_id
                result == arg[t].result
                before == AggregateOf(entry[1], user)
                after  == AggregateOf(stats', user)
            IN  /\ user \in UserIdsOf(stats')
                /\ after.games_played = before.games_played + 1
                /\ IF result.success
                   THEN /\ after.wins = before.wins + 1
                        /\ after.losses = before.losses
                        /\ after.total_attempts
                             = before.total_attempts + Val(result.attempts)
                        /\ \A bucket \in AllBuckets :
                             BucketCount(after, bucket)
                               = BucketCount(before, bucket)
                                 + (IF bucket = Str(Val(result.attempts)) THEN 1 ELSE 0)
                   ELSE /\ after.losses = before.losses + 1
                        /\ after.wins = before.wins
                        /\ after.total_attempts = before.total_attempts
                        /\ \A bucket \in AllBuckets :
                             BucketCount(after, bucket) = BucketCount(before, bucket)
                /\ UserIdsOf(stats') \ {user} = UserIdsOf(entry[1]) \ {user}
                /\ \A other \in UserIdsOf(entry[1]) \ {user} :
                     AggregateOf(stats', other) = AggregateOf(entry[1], other)]_vars

(* C20 witness: a call with a successful result in 3 attempts has returned True
   while the store held the aggregate of another user with a game. *)
C20_Witness ==
    \E t \in Tasks :
      /\ pc[t] = "done"
      /\ ret[t]
      /\ arg[t].result.success
      /\ arg[t].result.attempts = Some(3)
      /\ \E other \in UserIdsOf(stats) \ {arg[t].user_id} :
           GamesPlayedOf(stats, other) >= 1

----------------------------------------------------------------------------
(* Properties of the readers *)

ConsistentSummary(sm) == sm.games_played = sm.wins + sm.losses

(* C21: when get_user_summary or leaderboard is called between the record_result
   tasks, no task is inside the body of record_result, the memory read is the memory
   a whole call left (or load left), and every summary returned has
   games_played = wins + losses. *)
C21_ReadsSeeWholeRecords ==
    [][((\E user_id \in AskedIds : GetUserSummary(user_id)) \/ Leaderboard(DefaultLimit))
       => /\ \A t \in Tasks : ~InBody(t)
          /\ <<stats, processed>> = entry
          /\ userSummary' # None => ConsistentSummary(Val(userSummary'))
          /\ \A i \in DOMAIN board' : ConsistentSummary(board'[i])]_vars

(* C21 witness: the summary of a player with a game was read while a record_result
   call made before the read has not run yet. *)
C21_Witness ==
    /\ userSummary # None
    /\ Val(userSummary).games_played >= 1
    /\ \E t \in Tasks : pc[t] = "start"

----------------------------------------------------------------------------
(* C22: a submission whose record_result call failed with a write error is not lost
   on retry. Stated on the answer of the retry: no call is answered as a duplicate
   (return False) while its key is absent from the processed_messages of the
   canonical snapshot on disk. *)
C22_NoDuplicateAnswerWhileAbsentFromDisk ==
    [][\A t \in Tasks :
         Returns(t, FALSE)
           => /\ Truthy(KeyOf(t))
              /\ Val(KeyOf(t)) \in LoadedProcessed(disk)]_vars

----------------------------------------------------------------------------
(* C23: starting from an empty store, when every record_result call carries a
   non-empty dedupe key, the sum of games_played over all users equals the number
   of keys in the dedup set, in memory and in what load() would restore from the
   data file at any moment (a crash can come at any point). *)
C23_GamesMatchKeys ==
    /\ Games(stats) = Cardinality(processed)
    /\ Games(LoadedStats(disk)) = Cardinality(LoadedProcessed(disk))

(* the process died with two recorded games on disk, and has not loaded yet *)
C23_Witness ==
    /\ phase = "constructed"
    /\ Games(LoadedStats(disk)) = 2
    /\ Cardinality(LoadedProcessed(disk)) = 2

----------------------------------------------------------------------------
(* the call of task t was made with neither message_id nor message_key, or with
   message_key="" *)
Keyless(t) ==
    \/ arg[t].message_id = None /\ arg[t].message_key = None
    \/ arg[t].message_key = Some("")

(* C24: record_result called with neither message_id nor message_key, or with an
   empty-string message_key, is never treated as a duplicate: it goes on from the
   duplicate check to the counters, never returns False, and when it returns True the
   user's aggregate has one game more and the dedup set is as the call found it. *)
C24_KeylessNeverDuplicate ==
    [][\A t \in Tasks :
         (pc[t] # "idle" /\ Keyless(t))
           => /\ LeavesCheck(t) => pc'[t] = "counted"
              /\ ~Returns(t, FALSE)
              /\ Returns(t, TRUE)
                   => /\ processed' = entry[2]
                      /\ GamesPlayedOf(stats', arg[t].user_id)
                           = GamesPlayedOf(entry[1], arg[t].user_id) + 1]_vars

(* the same keyless call was made twice, both returned True, and the user has two
   games *)
C24_Witness ==
    \E t, u \in Tasks :
      /\ t # u
      /\ pc[t] = "done" /\ ret[t]
      /\ pc[u] = "done" /\ ret[u]
      /\ Keyless(t)
      /\ arg[t].user_id = arg[u].user_id
      /\ arg[t].result = arg[u].result
      /\ arg[t].message_id = arg[u].message_id
      /\ arg[t].message_key = arg[u].message_key
      /\ GamesPlayedOf(stats, arg[t].user_id) = 2
      /\ processed = {}

----------------------------------------------------------------------------
(* C25: processing one daily-summary message records each resolved member at most
   once, however many of its entries resolve to that member and however often the
   message is processed (by two runs at once, one run after another, before and
   after a restart): no member has more than one game, in memory or in the data
   file, and the only keys are those of the message and its members. *)
C25_OneGamePerMemberOfTheMessage ==
    /\ \A m \in Members :
         /\ GamesPlayedOf(stats, m.id) <= 1
         /\ GamesPlayedOf(LoadedStats(disk), m.id) <= 1
    /\ processed \subseteq {DailyKey(101, m.id) : m \in Members}

(* an entry of the message has been answered as a duplicate of a recorded one, with
   entries of the run still to come, and the member has one game *)
C25_Witness ==
    \E t \in Tasks :
      /\ pc[t] = "done"
      /\ ~ret[t]
      /\ todo[t] # <<>>
      /\ arg[t].message_key = Some(DailyKey(101, arg[t].user_id))
      /\ GamesPlayedOf(stats, arg[t].user_id) = 1
      /\ GamesPlayedOf(LoadedStats(disk), arg[t].user_id) = 1

====
